---------------------------- MODULE Spec2Model ----------------------------
(***************************************************************************)
(* The useTeeProof hook of src/components/vana/hooks/useTeeProof.ts.       *)
(*                                                                         *)
(* One hook instance holds the React state isProcessing and error, the     *)
(* wallet address of useAccount and the mutation state of                  *)
(* useWriteContract.  requestContributionProof is an async function: it    *)
(* runs synchronously up to its first await, and every await is a point    *)
(* where the invocation is suspended until the collaborator settles the    *)
(* promise.  Each action below is one such run: from the settling of the   *)
(* awaited promise to the next await (or to the exit through catch and     *)
(* finally).  Invocations of the same hook may overlap, because nothing    *)
(* in the hook prevents a second call while the first one is suspended.    *)
(***************************************************************************)
EXTENDS Integers, Sequences, FiniteSets, TLC

VARIABLES
    address,          \* useAccount().address of the current render ("" = undefined)
    isProcessing,     \* useState(false), line 63
    error,            \* useState<string | null>(null), line 64
    currentMutation,  \* the invocation whose write the useWriteContract observer follows
    inv,              \* per invocation slot: the locals of requestContributionProof
    nCalls,           \* number of invocations started so far
    lastDone          \* the slot of the invocation that exited most recently (0: none)

vars == <<address, isProcessing, error, currentMutation, inv, nCalls, lastDone>>

(***************************************************************************)
(* Bounds and input sets.                                                  *)
(***************************************************************************)
\* Total number of invocations started in a behaviour.
MaxCalls == 3

\* Two suspended invocations are enough for every interleaving of two
\* overlapping calls; a slot is reused by a later call once its call exited.
Slots == {1, 2}

NoAddress == ""
Addresses == {NoAddress, "0xUser"}
FileIds == {7}
EncryptionKeys == {"", "key"}

(***************************************************************************)
(* uint256 values read from the chain.  A bigint b is hi * 2^53 + lo with  *)
(* hi \in {0, 1} and a small lo, so that values on both sides of           *)
(* Number.MAX_SAFE_INTEGER are present without 64-bit arithmetic.          *)
(***************************************************************************)
Big(h, l) == [hi |-> h, lo |-> l]
UndefinedJobId == [hi |-> -1, lo |-> 0]

\* Number(bigint), line 87: the nearest double, ties to the even significand.
\* Below 2^53 every integer is a double; in [2^53, 2^54) only the even ones are.
ToNumber(b) ==
    IF b.hi = 0 \/ b.lo % 2 = 0 THEN b
    ELSE IF b.lo % 4 = 1 THEN Big(b.hi, b.lo - 1)
    ELSE Big(b.hi, b.lo + 1)

\* Array.from(jobIds).map(Number), line 87.
RECURSIVE MapNumber(_)
MapNumber(s) ==
    IF s = <<>> THEN <<>> ELSE <<ToNumber(Head(s))>> \o MapNumber(Tail(s))

\* The sequences the fileJobIds read may return.
JobIdReplies ==
    { <<>>,
      <<Big(0, 2), Big(0, 1)>>,
      <<Big(0, 1), Big(0, 2)>>,
      <<Big(0, 1), Big(1, 1)>> }

(***************************************************************************)
(* Thrown values.                                                          *)
(***************************************************************************)
Err(msg) == [isError |-> TRUE, message |-> msg]
NonErr(v) == [isError |-> FALSE, message |-> v]
NoError == [isError |-> FALSE, message |-> ""]

Null == "<null>"

WalletNotConnectedMsg == "Wallet not connected"
FailedJobIdsMsg == "Failed to get job IDs for file"
NoJobsMsg == "No jobs found for file"
JobNotFoundMsg == "Job not found or missing TEE address"
TeeInfoNotFoundMsg == "TEE information not found"
FailedTeeDetailsMsg == "Failed to get TEE details for job"
GenericMsg == "Failed to process TEE proof"
TeeRequestFailedPrefix == "TEE request failed: "

\* What the collaborators reject with.
WriteRejections == {Err("User rejected the request"), NonErr("cancelled")}
ReceiptRejection == Err("Timed out while waiting for transaction")
FileJobIdsRejection == Err("fileJobIds reverted")
JobsRejection == Err("jobs reverted")
TeesRejection == Err("tees reverted")
PublicKeyRejection == Err("publicKey reverted")
FetchRejection == Err("Failed to fetch")
JsonRejection == Err("Unexpected token < in JSON")


TxHashes == {"0xaa"}
\* receipt.transactionHash: the submitted hash, or that of a replacement transaction.
ReceiptHashes == {"0xaa", "0xbb"}

\* jobs(jobId): null, a record without teeAddress, or a record with one.
JobReplies ==
    { [isNull |-> TRUE, teeAddress |-> ""],
      [isNull |-> FALSE, teeAddress |-> ""],
      [isNull |-> FALSE, teeAddress |-> "0xTee"] }

\* tees(teeAddress): null, or a record whose publicKey may be empty.
TeeReplies ==
    { [isNull |-> TRUE, url |-> "", publicKey |-> ""],
      [isNull |-> FALSE, url |-> "https://tee.example", publicKey |-> ""],
      [isNull |-> FALSE, url |-> "https://tee.example", publicKey |-> "0xTeeKey"] }

DlpPublicKeys == {"0xDlpKey"}
Nonces == {"1762194000000"}
EncryptionParameters == {[ivHex |-> "0x0102", ephemeralKeyHex |-> "0x0304"]}

(***************************************************************************)
(* JSON.  A parsed body is an object with one member whose value is a      *)
(* string or a literal (true, false, null, a number).                      *)
(***************************************************************************)
JsonObject(k, s, l) == [key |-> k, isString |-> s, lit |-> l]
NoJson == JsonObject("", FALSE, "")
OkTrue == JsonObject("ok", FALSE, "true")
ErrorBadRequest == JsonObject("error", TRUE, "bad request")

Quote(s) == "\"" \o s \o "\""

\* JSON.stringify(errorData), line 225.
JSONstringify(j) ==
    "{" \o Quote(j.key) \o ":" \o (IF j.isString THEN Quote(j.lit) ELSE j.lit) \o "}"

\* The Response objects fetch may resolve with: a status and a body that
\* response.json() parses (valid) or rejects.
HttpResponse(st, v, j) == [status |-> st, valid |-> v, json |-> j]
NoResponse == HttpResponse(0, FALSE, NoJson)
Responses ==
    { HttpResponse(200, TRUE, OkTrue),
      HttpResponse(299, TRUE, ErrorBadRequest),
      HttpResponse(300, TRUE, OkTrue),
      HttpResponse(500, TRUE, ErrorBadRequest),
      HttpResponse(500, FALSE, NoJson) }

\* Variant: only status 200 counts as success.
ResponseOk_Only200(status) == status = 200

\* Response.ok, read at line 223: the status is in the range 200-299.
ResponseOk(status) == status >= 200 /\ status <= 299

(***************************************************************************)
(* The locals of one invocation.                                           *)
(***************************************************************************)
NoJobDetails == [teeUrl |-> "", teePublicKey |-> "", teeAddress |-> ""]
NoResult == [fileId |-> 0, jobId |-> UndefinedJobId, proofData |-> NoJson, txHash |-> ""]
NoParams == [ivHex |-> "", ephemeralKeyHex |-> ""]
NoSent == [url |-> "", body |-> <<>>]

ProofUrl ==
    "https://github.com/vana-com/vana-satya-proof-template/releases/download/v24/gsc-my-proof-24.tar.gz"
UserEmail == "user@example.com"
DataLiquidityPoolAddress == "0xDataLiquidityPoolProxy"

NoBody ==
    [ job_id |-> UndefinedJobId, file_id |-> 0, nonce |-> "", proof_url |-> "",
      encryption_seed |-> "", env_vars |-> [USER_EMAIL |-> ""],
      validate_permissions |-> <<>>,
      encrypted_encryption_key |-> <<>>, encryption_key |-> <<>> ]

Locals0 ==
    [ pc |-> "idle", fileId |-> 0, encryptionKey |-> "",
      hash |-> "", txHash |-> "", rawJobIds |-> <<>>,
      latestJobId |-> UndefinedJobId, jobId |-> UndefinedJobId,
      teeAddress |-> "", jobDetails |-> NoJobDetails,
      nonce |-> "", params |-> NoParams,
      requestBody |-> NoBody, sent |-> NoSent, response |-> NoResponse,
      result |-> NoResult, thrown |-> NoError, helperLog |-> NoError,
      calls |-> <<>> ]

Suspended ==
    {"awaitWrite", "awaitReceipt", "awaitJobIds", "awaitJob", "awaitTee",
     "awaitPubKey", "awaitFetch", "awaitJson"}
Exited == {"returned", "threw"}

InFlight(i) == inv[i].pc \in Suspended

\* useWriteContract().isPending, line 62: the observed mutation is pending.
isPending == currentMutation # 0 /\ inv[currentMutation].pc = "awaitWrite"

\* The isProcessing the hook returns, line 249.
Indicator == isProcessing \/ isPending


(***************************************************************************)
(* Pieces of requestContributionProof and its helpers.                     *)
(***************************************************************************)
\* Variant: the guard of line 144 is missing.
WalletConnected_Always(addr) == TRUE

\* if (!address), line 144: undefined and "" are both falsy.
WalletConnected(addr) == addr # NoAddress

\* Variant: the empty result is not rejected.
NoJobs_Never(jobIds) == FALSE

\* jobIds.length === 0, line 166.
NoJobs(jobIds) == Len(jobIds) = 0

\* Variant: the first (oldest) job is taken.
LatestJobId_First(jobIds) ==
    IF Len(jobIds) = 0 THEN UndefinedJobId ELSE jobIds[1]

\* jobIds[jobIds.length - 1], line 171 (undefined on an empty array).
LatestJobId(jobIds) ==
    IF Len(jobIds) = 0 THEN UndefinedJobId ELSE jobIds[Len(jobIds)]

\* !job || !job.teeAddress, line 108.
JobMissing(job) == job.isNull \/ job.teeAddress = ""

\* !teeInfo, line 120.
TeeInfoMissing(teeInfo) == teeInfo.isNull

\* Variant: the helper rethrows what it caught.
GetFileJobIdsCatch_Rethrow(err) == err

\* The catch of getFileJobIds, lines 88-91: the error is logged and replaced.
GetFileJobIdsCatch(err) == Err(FailedJobIdsMsg)

\* The catch of getTeeDetails, lines 129-132: it also catches the errors the
\* helper's own try block throws at lines 109 and 121.
GetTeeDetailsCatch(err) == Err(FailedTeeDetailsMsg)

\* getDlpPublicKey, lines 46-57: no try/catch, the rejection is passed on.
GetDlpPublicKeyRejection(err) == err

\* err instanceof Error ? err.message : "Failed to process TEE proof", lines 238-240.
CatchMessage(err) == IF err.isError THEN err.message ELSE GenericMsg

\* Variant: the else of line 207 is missing, the plain key is always set.
WithEncryptionKey_Both(body, teePublicKey, encryptionKey) ==
    IF teePublicKey # ""
    THEN [body EXCEPT !.encrypted_encryption_key = <<encryptionKey>>,
                      !.encryption_key = <<encryptionKey>>]
    ELSE [body EXCEPT !.encryption_key = <<encryptionKey>>]

\* Lines 204-209: the key goes into exactly one of the two optional members,
\* chosen by the truthiness of the TEE public key.
WithEncryptionKey(body, teePublicKey, encryptionKey) ==
    IF teePublicKey # ""
    THEN [body EXCEPT !.encrypted_encryption_key = <<encryptionKey>>]
    ELSE [body EXCEPT !.encryption_key = <<encryptionKey>>]

\* The requestBody literal of lines 183-201.
BuildRequestBody(loc, dlpPublicKey) ==
    [ job_id |-> loc.latestJobId,
      file_id |-> loc.fileId,
      nonce |-> loc.nonce,
      proof_url |-> ProofUrl,
      encryption_seed |-> loc.encryptionKey,
      env_vars |-> [USER_EMAIL |-> UserEmail],
      validate_permissions |->
          << [ address |-> DataLiquidityPoolAddress,
               public_key |-> dlpPublicKey,
               iv |-> loc.params.ivHex,
               ephemeral_key |-> loc.params.ephemeralKeyHex ] >>,
      encrypted_encryption_key |-> <<>>,
      encryption_key |-> <<>> ]

\* JSON.stringify(requestBody), line 219: a member whose value is undefined
\* is left out; the result is the function from the members present to
\* their values.
OptionalMembers == {"encrypted_encryption_key", "encryption_key"}
Members(body) ==
    {n \in DOMAIN body : n \notin OptionalMembers \/ body[n] # <<>>}
SerializeBody(body) ==
    [n \in Members(body) |-> IF n \in OptionalMembers THEN body[n][1] ELSE body[n]]

\* The fetch of lines 212-221.
RunProofRequest(loc, body) ==
    [url |-> loc.jobDetails.teeUrl \o "/RunProof", body |-> SerializeBody(body)]

\* new Error(`TEE request failed: ${JSON.stringify(errorData)}`), line 225.
TeeRequestFailed(errorData) == Err(TeeRequestFailedPrefix \o JSONstringify(errorData))

\* The value returned at lines 230-235.
ProofResult(loc, proofData) ==
    [ fileId |-> loc.fileId, jobId |-> loc.latestJobId,
      proofData |-> proofData, txHash |-> loc.txHash ]

\* A call to a collaborator is issued and the invocation waits for it.
Issue(loc, op, pcv) == [loc EXCEPT !.calls = Append(@, op), !.pc = pcv]

\* What is left of an invocation once it exited: its locals are gone; the
\* value it returned or threw, what its helpers logged with console.error
\* and the calls it issued remain observable.
Exit(loc, pcv, res, err) ==
    [Locals0 EXCEPT !.pc = pcv, !.calls = loc.calls,
                    !.helperLog = loc.helperLog, !.result = res, !.thrown = err]

\* The locals that lines 223-235 still read once fetch has resolved; the
\* request has been delivered and the other locals are never read again.
Live(loc) ==
    [Locals0 EXCEPT !.fileId = loc.fileId, !.latestJobId = loc.latestJobId,
                    !.txHash = loc.txHash, !.calls = loc.calls,
                    !.helperLog = loc.helperLog]

\* The invocation is suspended at an await: no hook state changes.
Suspend(i, loc) ==
    /\ inv' = [inv EXCEPT ![i] = loc]
    /\ UNCHANGED <<isProcessing, error, lastDone>>

\* catch and finally, lines 236-244: setError, rethrow, setIsProcessing(false).
Throw(i, loc, err) ==
    /\ inv' = [inv EXCEPT ![i] = Exit(loc, "threw", NoResult, err)]
    /\ error' = CatchMessage(err)
    /\ isProcessing' = FALSE
    /\ lastDone' = i

\* return and finally, lines 230-235 and 242-244.
Return(i, loc, res) ==
    /\ inv' = [inv EXCEPT ![i] = Exit(loc, "returned", res, NoError)]
    /\ isProcessing' = FALSE
    /\ lastDone' = i
    /\ UNCHANGED error


(***************************************************************************)
(* The state after the first render: nothing is in flight.                 *)
(***************************************************************************)
Init ==
    /\ address \in Addresses
    /\ isProcessing = FALSE
    /\ error = Null
    /\ currentMutation = 0
    /\ inv = [i \in Slots |-> Locals0]
    /\ nCalls = 0
    /\ lastDone = 0

\* useAccount, line 60: the wallet connects or disconnects between calls.
AccountChanged ==
    /\ \E a \in Addresses \ {address} : address' = a
    /\ UNCHANGED <<isProcessing, error, currentMutation, inv, nCalls, lastDone>>

\* requestContributionProof up to its first await, lines 136-154.
Start(i) ==
    /\ inv[i].pc \notin Suspended
    /\ nCalls < MaxCalls
    /\ nCalls' = nCalls + 1
    /\ UNCHANGED address
    /\ \E fileId \in FileIds, encryptionKey \in EncryptionKeys :
         LET loc == [Locals0 EXCEPT !.fileId = fileId,
                                    !.encryptionKey = encryptionKey]
         IN  IF ~WalletConnected(address)
             THEN /\ Throw(i, loc, Err(WalletNotConnectedMsg))
                  /\ UNCHANGED currentMutation
             ELSE /\ inv' = [inv EXCEPT ![i] =
                               Issue(loc, "requestContributionProof", "awaitWrite")]
                  /\ isProcessing' = TRUE
                  /\ error' = Null
                  /\ currentMutation' = i
                  /\ UNCHANGED lastDone

\* writeContractAsync settles, lines 149-160.
WriteSettle(i) ==
    /\ inv[i].pc = "awaitWrite"
    /\ UNCHANGED <<address, currentMutation, nCalls>>
    /\ \/ \E e \in WriteRejections : Throw(i, inv[i], e)
       \/ \E h \in TxHashes :
            Suspend(i, Issue([inv[i] EXCEPT !.hash = h],
                             "waitForTransactionReceipt", "awaitReceipt"))

\* Variant: a failed confirmation submits the transaction again.
ReceiptSettle_Retry(i) ==
    /\ inv[i].pc = "awaitReceipt"
    /\ UNCHANGED <<address, currentMutation, nCalls>>
    /\ \/ Suspend(i, Issue(inv[i], "requestContributionProof", "awaitWrite"))
       \/ \E h \in ReceiptHashes :
            Suspend(i, Issue([inv[i] EXCEPT !.txHash = h], "fileJobIds", "awaitJobIds"))

\* waitForTransactionReceipt settles, lines 157-165 and 78-85.
ReceiptSettle(i) ==
    /\ inv[i].pc = "awaitReceipt"
    /\ UNCHANGED <<address, currentMutation, nCalls>>
    /\ \/ Throw(i, inv[i], ReceiptRejection)
       \/ \E h \in ReceiptHashes :
            Suspend(i, Issue([inv[i] EXCEPT !.txHash = h], "fileJobIds", "awaitJobIds"))

\* The fileJobIds read settles, lines 80-92, 165-174 and 95-106.
FileJobIdsSettle(i) ==
    /\ inv[i].pc = "awaitJobIds"
    /\ UNCHANGED <<address, currentMutation, nCalls>>
    /\ \/ Throw(i, [inv[i] EXCEPT !.helperLog = FileJobIdsRejection],
                GetFileJobIdsCatch(FileJobIdsRejection))
       \/ \E raw \in JobIdReplies :
            LET jobIds == MapNumber(raw)
                loc == [inv[i] EXCEPT !.rawJobIds = raw]
            IN  IF NoJobs(jobIds)
                THEN Throw(i, loc, Err(NoJobsMsg))
                ELSE Suspend(i, Issue([loc EXCEPT !.latestJobId = LatestJobId(jobIds),
                                                 !.jobId = LatestJobId(jobIds)],
                                      "jobs", "awaitJob"))

\* The jobs read of getTeeDetails settles, lines 101-118 and 129-132.
JobsSettle(i) ==
    /\ inv[i].pc = "awaitJob"
    /\ UNCHANGED <<address, currentMutation, nCalls>>
    /\ \/ Throw(i, [inv[i] EXCEPT !.helperLog = JobsRejection],
                GetTeeDetailsCatch(JobsRejection))
       \/ \E job \in JobReplies :
            IF JobMissing(job)
            THEN Throw(i, [inv[i] EXCEPT !.helperLog = Err(JobNotFoundMsg)],
                       GetTeeDetailsCatch(Err(JobNotFoundMsg)))
            ELSE Suspend(i, Issue([inv[i] EXCEPT !.teeAddress = job.teeAddress],
                                  "tees", "awaitTee"))

\* The tees read of getTeeDetails settles, lines 113-133; then lines 174-196
\* up to the await of getDlpPublicKey, lines 46-57.
TeesSettle(i) ==
    /\ inv[i].pc = "awaitTee"
    /\ UNCHANGED <<address, currentMutation, nCalls>>
    /\ \/ Throw(i, [inv[i] EXCEPT !.helperLog = TeesRejection],
                GetTeeDetailsCatch(TeesRejection))
       \/ \E teeInfo \in TeeReplies, nonce \in Nonces, params \in EncryptionParameters :
            IF TeeInfoMissing(teeInfo)
            THEN Throw(i, [inv[i] EXCEPT !.helperLog = Err(TeeInfoNotFoundMsg)],
                       GetTeeDetailsCatch(Err(TeeInfoNotFoundMsg)))
            ELSE Suspend(i, Issue([inv[i] EXCEPT
                                     !.jobDetails = [teeUrl |-> teeInfo.url,
                                                     teePublicKey |-> teeInfo.publicKey,
                                                     teeAddress |-> inv[i].teeAddress],
                                     !.params = params,
                                     !.nonce = nonce],
                                  "publicKey", "awaitPubKey"))

\* The publicKey read settles, lines 51-56; then lines 183-221.
PublicKeySettle(i) ==
    /\ inv[i].pc = "awaitPubKey"
    /\ UNCHANGED <<address, currentMutation, nCalls>>
    /\ \/ Throw(i, inv[i], GetDlpPublicKeyRejection(PublicKeyRejection))
       \/ \E dlpPublicKey \in DlpPublicKeys :
            LET body == WithEncryptionKey(BuildRequestBody(inv[i], dlpPublicKey),
                                          inv[i].jobDetails.teePublicKey,
                                          inv[i].encryptionKey)
            IN  Suspend(i, Issue([inv[i] EXCEPT !.requestBody = body,
                                                !.sent = RunProofRequest(inv[i], body)],
                                 "fetch", "awaitFetch"))

\* fetch settles, lines 212-228; both branches then await response.json().
FetchSettle(i) ==
    /\ inv[i].pc = "awaitFetch"
    /\ UNCHANGED <<address, currentMutation, nCalls>>
    /\ \/ Throw(i, inv[i], FetchRejection)
       \/ \E r \in Responses :
            Suspend(i, [Live(inv[i]) EXCEPT !.response = r, !.pc = "awaitJson"])

\* response.json() settles, lines 223-245.
JsonSettle(i) ==
    /\ inv[i].pc = "awaitJson"
    /\ UNCHANGED <<address, currentMutation, nCalls>>
    /\ LET r == inv[i].response
       IN  IF ~r.valid
           THEN Throw(i, inv[i], JsonRejection)
           ELSE IF ~ResponseOk(r.status)
                THEN Throw(i, inv[i], TeeRequestFailed(r.json))
                ELSE Return(i, inv[i], ProofResult(inv[i], r.json))

Next ==
    \/ AccountChanged
    \/ \E i \in Slots : Start(i)
    \/ \E i \in Slots : WriteSettle(i)
    \/ \E i \in Slots : ReceiptSettle(i)
    \/ \E i \in Slots : FileJobIdsSettle(i)
    \/ \E i \in Slots : JobsSettle(i)
    \/ \E i \in Slots : TeesSettle(i)
    \/ \E i \in Slots : PublicKeySettle(i)
    \/ \E i \in Slots : FetchSettle(i)
    \/ \E i \in Slots : JsonSettle(i)

Spec == Init /\ [][Next]_vars


(***************************************************************************)
(* Vocabulary of the properties.                                           *)
(***************************************************************************)
Last(seq) == seq[Len(seq)]

IsPrefix(s, t) == Len(s) <= Len(t) /\ SubSeq(t, 1, Len(s)) = s

\* The pipeline of section 2: Submit, Confirm, Resolve Job, Resolve TEE
\* (jobs, tees), Build Request (publicKey), Dispatch.
StepOrder ==
    << "requestContributionProof", "waitForTransactionReceipt", "fileJobIds",
       "jobs", "tees", "publicKey", "fetch" >>

\* How many calls an invocation suspended at pc has issued.
IssuedAt(pcv) ==
    CASE pcv = "awaitWrite" -> 1
      [] pcv = "awaitReceipt" -> 2
      [] pcv = "awaitJobIds" -> 3
      [] pcv = "awaitJob" -> 4
      [] pcv = "awaitTee" -> 5
      [] pcv = "awaitPubKey" -> 6
      [] pcv \in {"awaitFetch", "awaitJson"} -> 7

\* A step of an invocation already running in slot i (not the start of one).
Resumes(i) == inv[i].pc \in Suspended /\ inv'[i] # inv[i]

NoneInFlight == \A i \in Slots : ~InFlight(i)


(***************************************************************************)
(* C1.  An invocation made while no wallet address is available fails with *)
(* the "Wallet not connected" error in its synchronous part: it exits in   *)
(* the very step that starts it, the error state records the message, and  *)
(* it has issued no contract write, no confirmation wait, no contract read *)
(* and no HTTP call; nothing else of the hook is touched by it.            *)
(***************************************************************************)
C1_NoWalletNoCall ==
    /\ [](\A i \in Slots :
            inv[i].thrown = Err(WalletNotConnectedMsg) =>
                inv[i].pc = "threw" /\ inv[i].calls = <<>>)
    /\ [][ (nCalls' # nCalls /\ address = NoAddress) =>
             \E i \in Slots :
                /\ lastDone' = i
                /\ inv'[i].pc = "threw"
                /\ inv'[i].thrown = Err(WalletNotConnectedMsg)
                /\ inv'[i].calls = <<>>
                /\ error' = WalletNotConnectedMsg
                /\ currentMutation' = currentMutation
                /\ \A j \in Slots \ {i} : inv'[j] = inv[j] ]_vars

\* An invocation without a wallet has failed while another one is suspended.
C1_Witness ==
    \E i, j \in Slots :
        /\ inv[i].pc = "threw"
        /\ inv[i].thrown = Err(WalletNotConnectedMsg)
        /\ address = NoAddress
        /\ InFlight(j)

(***************************************************************************)
(* C4.  When the fileJobIds read returns an empty sequence the invocation  *)
(* fails with "No jobs found for file", having issued the write, the       *)
(* confirmation wait and the fileJobIds read and nothing after them: an    *)
(* invocation goes on to the jobs read only with a non-empty sequence, and *)
(* one that stops there without the read having failed stops with that     *)
(* error.                                                                  *)
(***************************************************************************)
C4_NoJobsStops ==
    /\ [](\A i \in Slots :
            inv[i].thrown = Err(NoJobsMsg) =>
                /\ inv[i].pc = "threw"
                /\ inv[i].calls = SubSeq(StepOrder, 1, 3))
    /\ [][ \A i \in Slots :
             (inv[i].pc = "awaitJobIds" /\ inv'[i] # inv[i]) =>
                \/ /\ inv'[i].pc = "awaitJob"
                   /\ Len(inv'[i].rawJobIds) > 0
                \/ /\ inv'[i].pc = "threw"
                   /\ inv'[i].helperLog = FileJobIdsRejection
                \/ /\ inv'[i].pc = "threw"
                   /\ inv'[i].helperLog = NoError
                   /\ inv'[i].thrown = Err(NoJobsMsg)
                   /\ error' = NoJobsMsg ]_vars

\* An invocation has failed for a file without jobs.
C4_Witness ==
    \E i \in Slots :
        /\ inv[i].pc = "threw"
        /\ inv[i].thrown = Err(NoJobsMsg)
        /\ error = NoJobsMsg

(***************************************************************************)
(* C6.  The body of every request dispatched to the executor has exactly   *)
(* one of encrypted_encryption_key and encryption_key; it is               *)
(* encrypted_encryption_key exactly when the resolved TEE public key is    *)
(* non-empty, and the member carries the caller's key, whatever that key   *)
(* is (the empty string included).                                         *)
(***************************************************************************)
C6_ExactlyOneKeyMember ==
    \A i \in Slots :
        inv[i].pc = "awaitFetch" =>
            LET body == inv[i].sent.body
                enc == "encrypted_encryption_key" \in DOMAIN body
                plain == "encryption_key" \in DOMAIN body
            IN  /\ enc # plain
                /\ enc <=> (inv[i].jobDetails.teePublicKey # "")
                /\ enc => body["encrypted_encryption_key"] = inv[i].encryptionKey
                /\ plain => body["encryption_key"] = inv[i].encryptionKey

\* Two requests are in flight, one of each form, one with the empty key.
C6_Witness ==
    \E i, j \in Slots :
        /\ inv[i].pc = "awaitFetch" /\ inv[j].pc = "awaitFetch"
        /\ "encrypted_encryption_key" \in DOMAIN inv[i].sent.body
        /\ inv[i].encryptionKey = ""
        /\ "encryption_key" \in DOMAIN inv[j].sent.body
        /\ inv[j].encryptionKey = "key"


\* msg is the serialized text s, possibly after the prefix of line 225.
MessageContains(msg, s) ==
    \E prefix \in {"", TeeRequestFailedPrefix} : msg = prefix \o s

AfterReceipt == {"awaitJobIds", "awaitJob", "awaitTee", "awaitPubKey", "awaitFetch", "awaitJson"}

(***************************************************************************)
(* C7.  Once the executor's response with a JSON body is at hand, its      *)
(* status decides the outcome.  With a status in 200..299 the invocation   *)
(* returns the result made of the input file id, the body unmodified as    *)
(* proofData and the transaction hash of the confirmed receipt.  With any  *)
(* other status it returns no result and throws an Error whose message     *)
(* contains the serialized body.  The file id and the receipt's hash are   *)
(* the ones the invocation got at its start and at the confirmation: no    *)
(* step in between changes them.                                           *)
(***************************************************************************)
C7_StatusDecidesOutcome ==
    [][ \A i \in Slots :
          /\ (Resumes(i) /\ inv'[i].pc \in Suspended) =>
                /\ inv'[i].fileId = inv[i].fileId
                /\ inv[i].pc \in AfterReceipt => inv'[i].txHash = inv[i].txHash
          /\ (Resumes(i) /\ inv[i].pc = "awaitJson" /\ inv[i].response.valid) =>
                IF inv[i].response.status \in 200..299
                THEN /\ inv'[i].pc = "returned"
                     /\ inv'[i].thrown = NoError
                     /\ inv'[i].result =
                           [ fileId |-> inv[i].fileId,
                             jobId |-> inv[i].latestJobId,
                             proofData |-> inv[i].response.json,
                             txHash |-> inv[i].txHash ]
                ELSE /\ inv'[i].pc = "threw"
                     /\ inv'[i].result = NoResult
                     /\ inv'[i].thrown.isError
                     /\ MessageContains(inv'[i].thrown.message,
                                        JSONstringify(inv[i].response.json)) ]_vars

\* One invocation returned {"ok":true} with the hash of a replacement
\* transaction; another failed on the 500 response {"error":"bad request"}.
C7_Witness ==
    \E i, j \in Slots :
        /\ inv[i].pc = "returned"
        /\ inv[i].result.proofData = OkTrue
        /\ inv[i].result.txHash = "0xbb"
        /\ inv[i].result.fileId \in FileIds
        /\ inv[j].pc = "threw"
        /\ inv[j].thrown = Err("TEE request failed: {\"error\":\"bad request\"}")

(***************************************************************************)
(* C8 as stated.  Whenever a contract read of an invocation throws         *)
(* (fileJobIds, jobs, tees or the pool's publicKey), the caller gets one   *)
(* of the two step-specific messages and not the collaborator's error.     *)
(***************************************************************************)
C8_EveryReadWrapped ==
    \A i \in Slots :
        (/\ inv[i].pc = "threw"
         /\ \/ inv[i].helperLog \in {FileJobIdsRejection, JobsRejection, TeesRejection}
            \/ (inv[i].calls # <<>> /\ Last(inv[i].calls) = "publicKey")) =>
            inv[i].thrown.message \in {FailedJobIdsMsg, FailedTeeDetailsMsg}

(***************************************************************************)
(* C8 amended.  A throwing fileJobIds read reaches the caller as "Failed   *)
(* to get job IDs for file", a throwing jobs or tees read as "Failed to    *)
(* get TEE details for job"; a throwing publicKey read is not wrapped: the *)
(* caller gets the collaborator's own error.                               *)
(***************************************************************************)
C8_HelperReadsWrapped ==
    \A i \in Slots :
        inv[i].pc = "threw" =>
            /\ inv[i].helperLog = FileJobIdsRejection =>
                  inv[i].thrown = Err(FailedJobIdsMsg)
            /\ inv[i].helperLog \in {JobsRejection, TeesRejection} =>
                  inv[i].thrown = Err(FailedTeeDetailsMsg)
            /\ (inv[i].calls # <<>> /\ Last(inv[i].calls) = "publicKey") =>
                  inv[i].thrown = PublicKeyRejection

\* One invocation failed on the fileJobIds read, another on the publicKey read.
C8_Witness ==
    \E i, j \in Slots :
        /\ inv[i].pc = "threw" /\ inv[i].helperLog = FileJobIdsRejection
        /\ inv[j].pc = "threw" /\ inv[j].calls # <<>>
        /\ Last(inv[j].calls) = "publicKey"

(***************************************************************************)
(* C9.  The calls of an invocation are issued in the order write,          *)
(* confirmation wait, fileJobIds, jobs, tees, publicKey, fetch, each once: *)
(* an invocation waiting for step k has issued exactly steps 1..k, one     *)
(* that returned has issued all seven, one that threw has issued a prefix. *)
(* A step issues at most the next call, a failing step issues none, and an *)
(* invocation that has exited does nothing more (no retry, no compensating *)
(* transaction).                                                           *)
(***************************************************************************)
C9_StrictOrder ==
    /\ [](\A i \in Slots :
            /\ IsPrefix(inv[i].calls, StepOrder)
            /\ inv[i].pc \in Suspended => Len(inv[i].calls) = IssuedAt(inv[i].pc)
            /\ inv[i].pc = "returned" => inv[i].calls = StepOrder
            /\ inv[i].pc = "idle" => inv[i].calls = <<>>)
    /\ [][ \A i \in Slots :
             /\ Resumes(i) =>
                  /\ IsPrefix(inv[i].calls, inv'[i].calls)
                  /\ Len(inv'[i].calls) <= Len(inv[i].calls) + 1
                  /\ inv'[i].pc = "threw" => inv'[i].calls = inv[i].calls
             /\ (inv[i].pc \in Exited /\ nCalls' = nCalls) => inv'[i] = inv[i] ]_vars

\* One invocation ran the whole pipeline; another stopped after the write.
C9_Witness ==
    \E i, j \in Slots :
        /\ inv[i].pc = "returned" /\ inv[i].calls = StepOrder
        /\ inv[j].pc = "threw" /\ inv[j].calls = SubSeq(StepOrder, 1, 1)


(***************************************************************************)
(* C2.  The processing indicator the hook returns is true in every state   *)
(* in which an invocation is between its start and its exit, also when     *)
(* another invocation of the same hook is in flight, and it is false once  *)
(* no invocation is in flight any more.                                    *)
(***************************************************************************)
C2_ProcessingWhileInFlight ==
    /\ \A i \in Slots : InFlight(i) => Indicator
    /\ NoneInFlight => ~Indicator

(***************************************************************************)
(* C3.  A missing job record and a missing executor record are distinct    *)
(* terminal conditions: the error that reaches the caller, and the message *)
(* in the error state when that invocation is the last one to have exited  *)
(* with nothing else in flight, is "Job not found ..." in the first case   *)
(* and "TEE information not found" in the second, and neither is the       *)
(* message of a throwing read.                                             *)
(***************************************************************************)
C3_DistinctNotFoundErrors ==
    \A i \in Slots :
        (inv[i].pc = "threw" /\ inv[i].helperLog.message \in {JobNotFoundMsg, TeeInfoNotFoundMsg}) =>
            /\ inv[i].thrown.message = inv[i].helperLog.message
            /\ inv[i].thrown.message # FailedTeeDetailsMsg
            /\ (lastDone = i /\ NoneInFlight) => error = inv[i].helperLog.message

NearestDouble(b) ==
    IF b.hi = 0 THEN b
    ELSE CASE b.lo % 4 = 0 -> b
           [] b.lo % 4 = 1 -> [hi |-> b.hi, lo |-> b.lo - 1]
           [] b.lo % 4 = 2 -> b
           [] b.lo % 4 = 3 -> [hi |-> b.hi, lo |-> b.lo + 1]

C10_ErrorOfLastFinished ==
    (NoneInFlight /\ lastDone # 0) =>
        error = IF inv[lastDone].pc = "returned" THEN Null
                ELSE IF inv[lastDone].thrown.isError
                     THEN inv[lastDone].thrown.message
                     ELSE GenericMsg

=============================================================================
